---- MODULE Spec2Model ----
(***************************************************************************)
(* Model of pandora/img_tools.py: the raster kernels prepare_pyramid,      *)
(* create_downsampled_dataset, shift_right_img, check_inside_image,        *)
(* census_transform, compute_mean_raster, compute_mean_patch and           *)
(* compute_std_raster, applied to datasets of the form read_img builds.    *)
(*                                                                         *)
(* A dataset (xarray.Dataset) is a record                                  *)
(*   id, store : identity of the Dataset object and of its 'im' storage    *)
(*   h, n      : shape of 'im' (rows, columns)                             *)
(*   im        : [(0..h-1) \X (0..n-1) -> Int], sample numerators          *)
(*   den       : common denominator of the samples (value = im / den)      *)
(*   hasMsk, msk        : the optional 'msk' variable                      *)
(*   hasAttrs, attrs    : the attrs dictionary                             *)
(*   row, col  : coordinate labels, in units of 1/CoordDen pixel           *)
(* Samples are integer valued, so every sum the kernels form is exact.     *)
(***************************************************************************)
EXTENDS Integers, Sequences, FiniteSets, TLC

VARIABLES left, right, pc, call, ret
vars == <<left, right, pc, call, ret>>

\* ---- bounds of the model ----
MaxH == 5
MaxW == 5
MaxVal == 2
MaxWin == 5
MaxSubpix == 4
MaxScales == 3
MaxFactor == 3

\* ---- program constants ----
NanSentinel == -9999
ValidPixels == 0
NoDataMask == 1
CoordDen == 4
Uint32Bits == 32

\* ---- arithmetic helpers ----
Min(a, b) == IF a < b THEN a ELSE b
Max(a, b) == IF a > b THEN a ELSE b
Abs(a) == IF a < 0 THEN -a ELSE a

RECURSIVE Pow2(_)
Pow2(k) == IF k <= 0 THEN 1 ELSE 2 * Pow2(k - 1)

\* Python's int(a / b) for b # 0: float division truncated toward zero.
TruncDiv(a, b) ==
    IF (a >= 0) = (b > 0) THEN Abs(a) \div Abs(b) ELSE -(Abs(a) \div Abs(b))

RECURSIVE RangeSum(_, _, _)
RangeSum(f, lo, hi) == IF lo > hi THEN 0 ELSE f[lo] + RangeSum(f, lo + 1, hi)

\* Python's a[start:stop] on an axis of length len: the half-open index
\* range <<lo, hi>> after normalising negative and out-of-range bounds.
SliceNorm(len, i) == IF i < 0 THEN Max(i + len, 0) ELSE Min(i, len)
PySlice(len, start, stop) ==
    LET lo == SliceNorm(len, start)
        hi == SliceNorm(len, stop)
    IN  <<lo, Max(lo, hi)>>
SliceLen(s) == s[2] - s[1]

\* numpy.arange(start, stop, step) for step > 0, on scaled integers.
Arange(start, stop, step) ==
    LET cnt == IF stop <= start THEN 0 ELSE (stop - start + step - 1) \div step
    IN  [j \in 1..cnt |-> start + (j - 1) * step]

\* A numpy array: the function itself, its entries evaluated once.
Array(f) == IF f = <<>> THEN <<>> ELSE f
Grid(h, n, F(_, _)) == Array([p \in (0..(h - 1)) \X (0..(n - 1)) |-> F(p[1], p[2])])

\* ---- datasets ----
NoAttrs == [present |-> FALSE, no_data_img |-> 0, valid_pixels |-> 0, no_data_mask |-> 0]
EmptyGrid == Grid(0, 0, LAMBDA r, c : 0)

\* np.arange(k) as coordinate labels
Labels(lo, hi) == Arange(lo * CoordDen, hi * CoordDen, CoordDen)

\* read_img for a numeric (non-NaN) no_data value: data is the decoded band,
\* useMask tells whether a mask file is given, input_mask is its content.
read_img(oid, h, n, data, no_data, useMask, input_mask) ==
    LET no_data_pixels == {p \in DOMAIN data : data[p] = no_data}
        attrs == [present |-> TRUE, no_data_img |-> no_data,
                  valid_pixels |-> ValidPixels, no_data_mask |-> NoDataMask]
        base == [id |-> oid, store |-> oid, h |-> h, n |-> n, im |-> data, den |-> 1,
                 hasMsk |-> FALSE, msk |-> EmptyGrid,
                 hasAttrs |-> TRUE, attrs |-> attrs,
                 row |-> Labels(0, h), col |-> Labels(0, n)]
        msk0 == [p \in DOMAIN data |-> attrs.valid_pixels]
        msk1 == [p \in DOMAIN data |->
                    IF useMask /\ input_mask[p] > 0
                    THEN attrs.valid_pixels + attrs.no_data_mask + 1
                    ELSE msk0[p]]
        msk2 == [p \in DOMAIN data |->
                    IF p \in no_data_pixels THEN attrs.no_data_mask ELSE msk1[p]]
    IN  IF ~useMask /\ no_data_pixels = {}
        THEN base
        ELSE [base EXCEPT !.hasMsk = TRUE, !.msk = msk2]

\* ---- results ----
Ok(v) == [kind |-> "ok", val |-> v]
Err(k) == [kind |-> k, val |-> <<>>]

\* ---- check_inside_image ----
check_inside_image(img, row, col) ==
    LET nx_ == img.h
        ny_ == img.n
    IN  0 <= row /\ row < nx_ /\ 0 <= col /\ col < ny_

\* ---- compute_mean_patch ----
\* The value np.mean returns is sum / cnt over the sliced block; an empty
\* block gives cnt = 0 (numpy's nan).
compute_mean_patch(img, row, col, win_size) ==
    LET half == TruncDiv(win_size, 2)
        begin_window == <<row - half, col - half>>
        end_window == <<row + half, col + half>>
        rs == PySlice(img.h, begin_window[2], end_window[2] + 1)
        cs == PySlice(img.n, begin_window[1], end_window[1] + 1)
        colsum == [r \in rs[1]..(rs[2] - 1) |->
                     RangeSum([c \in cs[1]..(cs[2] - 1) |-> img.im[<<r, c>>]], cs[1], cs[2] - 1)]
    IN  IF check_inside_image(img, begin_window[1], begin_window[2])
           /\ check_inside_image(img, end_window[1], end_window[2])
        THEN Ok([sum |-> RangeSum(colsum, rs[1], rs[2] - 1),
                 cnt |-> SliceLen(rs) * SliceLen(cs),
                 den |-> img.den])
        ELSE Err("IndexError")

\* ---- compute_mean_raster ----
\* A cumsum written without the prepended row of zeros: each difference then
\* drops the first row of its window and takes the row below it.
cumsum_rows_no_zero_row(img) ==
    Array([p \in (0..img.h) \X (0..(img.n - 1)) |->
        RangeSum([r \in 0..Min(p[1], img.h - 1) |-> img.im[<<r, p[2]>>]],
                 0, Min(p[1], img.h - 1))])

\* np.cumsum(np.r_[np.zeros((1, nx_)), img['im']], axis=0)
cumsum_rows(img) ==
    Array([p \in (0..img.h) \X (0..(img.n - 1)) |->
        RangeSum([r \in 0..(p[1] - 1) |-> img.im[<<r, p[2]>>]], 0, p[1] - 1)])

\* Each numpy step of the function, with the shapes numpy derives; a shape
\* numpy cannot build or broadcast is its ValueError.
compute_mean_raster(img, win_size) ==
    LET ny_ == img.h
        nx_ == img.n
        \* np.r_[zeros((1, nx_)), im] then cumsum along axis 0
        cum0 == cumsum_rows(img)
        a0 == PySlice(ny_ + 1, win_size, ny_ + 1)
        b0 == PySlice(ny_ + 1, 0, -win_size)
        rows == SliceLen(a0)
        diff0 == Grid(rows, nx_, LAMBDA i, j :
                    cum0[<<a0[1] + i, j>>] - cum0[<<b0[1] + i, j>>])
        \* np.c_[zeros(ny_ - (win_size - 1)), r_mean] then cumsum along axis 1
        zlen == ny_ - (win_size - 1)
        cum1 == Grid(rows, nx_ + 1, LAMBDA i, j :
                    RangeSum([c \in 0..(j - 1) |-> diff0[<<i, c>>]], 0, j - 1))
        a1 == PySlice(nx_ + 1, win_size, nx_ + 1)
        b1 == PySlice(nx_ + 1, 0, -win_size)
        cols == SliceLen(a1)
        diff1 == Grid(rows, cols, LAMBDA i, j :
                    cum1[<<i, a1[1] + j>>] - cum1[<<i, b1[1] + j>>])
    IN  IF SliceLen(a0) # SliceLen(b0) THEN Err("ValueError")
        ELSE IF zlen < 0 \/ zlen # rows THEN Err("ValueError")
        ELSE IF SliceLen(a1) # SliceLen(b1) THEN Err("ValueError")
        ELSE Ok([rows |-> rows, cols |-> cols, num |-> diff1,
                 den |-> win_size * win_size * img.den])

\* ---- compute_std_raster ----
\* Floor of the square root, standing for np.sqrt on the exact variance.
ISqrt(x) == CHOOSE s \in 0..x : s * s <= x /\ (s + 1) * (s + 1) > x

\* std = sqrt(E[x^2] - E[x]^2).  With M = mean_.den the variance is
\* (M * sum(x^2) - sum(x)^2) / M^2; the entry is its numerator `var` and the
\* floor `std` of sqrt(var), over the denominator M.
compute_std_raster(img, win_size) ==
    LET mean_ == compute_mean_raster(img, win_size)
        raster_power_two == [img EXCEPT !.im = [p \in DOMAIN img.im |-> img.im[p] * img.im[p]],
                                        !.den = img.den * img.den,
                                        !.row = Labels(0, img.h), !.col = Labels(0, img.n),
                                        !.hasMsk = FALSE, !.msk = EmptyGrid,
                                        !.hasAttrs = FALSE, !.attrs = NoAttrs]
        mean_power_two == compute_mean_raster(raster_power_two, win_size)
        w2 == win_size * win_size
        var0 == [p \in DOMAIN mean_.val.num |->
                    w2 * mean_power_two.val.num[p] - mean_.val.num[p] * mean_.val.num[p]]
        \* var < 1e-15 * |mean_power_two| is reset to 0: on exact integer sums
        \* this is var <= 0 (a positive numerator is at least 1)
        var == [p \in DOMAIN var0 |-> IF var0[p] <= 0 THEN 0 ELSE var0[p]]
    IN  IF mean_.kind # "ok" THEN mean_
        ELSE IF mean_power_two.kind # "ok" THEN mean_power_two
        ELSE Ok([rows |-> mean_.val.rows, cols |-> mean_.val.cols,
                 var |-> var, std |-> [p \in DOMAIN var |-> ISqrt(var[p])],
                 den |-> mean_.val.den])

\* ---- census_transform ----
\* a comparison that also counts ties
greater_or_equal(window_value, central_pixel) ==
    IF window_value >= central_pixel THEN 1 ELSE 0

\* windows[:, :, row, col] > central_pixels[:, :], as the integer numpy shifts
greater(window_value, central_pixel) ==
    IF window_value > central_pixel THEN 1 ELSE 0

\* numpy broadcasting of an operand of extent b into an output of extent a
InPlaceBroadcast(a, b) == b = a \/ b = 1

\* The double loop over the window: position k = row * window_size + col is
\* visited with shift = window_size^2 - 1 - k.  The sum is accumulated in
\* uint32: a term shifted by Uint32Bits or more wraps to 0.
RECURSIVE census_bits(_, _, _, _, _)
census_bits(image, window_size, i, j, k) ==
    IF k >= window_size * window_size THEN 0
    ELSE LET row == k \div window_size
             col == k % window_size
             shift == window_size * window_size - 1 - k
             border == TruncDiv(window_size - 1, 2)
             bh == SliceLen(PySlice(image.h, border, -border))
             bw == SliceLen(PySlice(image.n, border, -border))
             ci == IF bh = 1 THEN 0 ELSE i
             cj == IF bw = 1 THEN 0 ELSE j
             central == image.im[<<PySlice(image.h, border, -border)[1] + ci,
                                   PySlice(image.n, border, -border)[1] + cj>>]
             bit == greater(image.im[<<i + row, j + col>>], central)
         IN  (IF shift < Uint32Bits THEN bit * Pow2(shift) ELSE 0)
             + census_bits(image, window_size, i, j, k + 1)

census_transform(image, window_size, oid) ==
    LET ny_ == image.h
        nx_ == image.n
        border == TruncDiv(window_size - 1, 2)
        oh == ny_ - (window_size - 1)
        ow == nx_ - (window_size - 1)
        \* central_pixels = im[border:-border, border:-border]
        ch == SliceLen(PySlice(ny_, border, -border))
        cw == SliceLen(PySlice(nx_, border, -border))
        census == Grid(oh, ow, LAMBDA i, j : census_bits(image, window_size, i, j, 0))
        rowc == Labels(border, ny_ - border)
        colc == Labels(border, nx_ - border)
    IN  \* as_strided: negative dimensions are not allowed
        IF oh < 0 \/ ow < 0 \/ window_size < 0 THEN Err("ValueError")
        \* census[:, :] += (windows > central_pixels) << shift
        ELSE IF window_size > 0 /\ ~(InPlaceBroadcast(oh, ch) /\ InPlaceBroadcast(ow, cw))
        THEN Err("ValueError")
        \* xr.Dataset: coordinate length differs from the data's
        ELSE IF Len(rowc) # oh \/ Len(colc) # ow THEN Err("ValueError")
        ELSE Ok([id |-> oid, store |-> oid, h |-> oh, n |-> ow, im |-> census, den |-> 1,
                 hasMsk |-> FALSE, msk |-> EmptyGrid, hasAttrs |-> FALSE, attrs |-> NoAttrs,
                 row |-> rowc, col |-> colc])

\* ---- shift_right_img ----
\* scipy.ndimage.zoom(im, (1, (nx_ * 4 - 3) / nx_), order=1): nx_ * 4 - 3
\* output columns, output column i sampling input coordinate i / 4 by linear
\* interpolation; the entry is the sample times 4.
zoom4(img) ==
    Grid(img.h, 4 * img.n - 3,
         LAMBDA r, i : LET j == i \div 4
                           f == i % 4
                       IN  IF f = 0 THEN 4 * img.im[<<r, j>>]
                           ELSE (4 - f) * img.im[<<r, j>>] + f * img.im[<<r, j + 1>>])

\* labels that run up to and including the last input column
shift_col_inclusive(img_right, q) ==
    Arange(img_right.col[1] + q, img_right.col[Len(img_right.col)] + CoordDen, CoordDen)

\* np.arange(col[0] + q / 4, col[-1], step=1)
shift_col(img_right, q) ==
    Arange(img_right.col[1] + q, img_right.col[Len(img_right.col)], CoordDen)

\* zoom(...)[:, q::4] with col = np.arange(col[0] + q / 4, col[-1], step=1),
\* wrapped in a new Dataset that has 'im' and the coordinates only.
shifted(img_right, q, oid) ==
    LET ny_ == img_right.h
        nx_ == img_right.n
        z == zoom4(img_right)
        s == PySlice(4 * nx_ - 3, q, 4 * nx_ - 3)
        idx == Arange(s[1], s[2], 4)
        data == Grid(ny_, Len(idx), LAMBDA r, j : z[<<r, idx[j + 1]>>])
        col == shift_col(img_right, q)
    IN  [id |-> oid, store |-> oid, h |-> ny_, n |-> Len(idx), im |-> data,
         den |-> 4 * img_right.den,
         hasMsk |-> FALSE, msk |-> EmptyGrid, hasAttrs |-> FALSE, attrs |-> NoAttrs,
         row |-> Labels(0, ny_), col |-> col]

\* xr.Dataset refuses coordinates whose length differs from the data's
dataset_ok(ds) == Len(ds.row) = ds.h /\ Len(ds.col) = ds.n

shift_right_img(img_right, subpix, oid) ==
    LET img_right_shift == <<img_right>>
        two == IF subpix = 2 THEN <<shifted(img_right, 2, oid)>> ELSE <<>>
        four == IF subpix = 4
                THEN <<shifted(img_right, 1, oid), shifted(img_right, 2, oid + 1),
                       shifted(img_right, 3, oid + 2)>>
                ELSE <<>>
        out == img_right_shift \o two \o four
    IN  IF \A k \in 1..Len(out) : k = 1 \/ dataset_ok(out[k])
        THEN Ok(out)
        ELSE Err("ValueError")

\* ---- create_downsampled_dataset ----
\* cv2.getGaussianKernel(5, 1.2) = (0.0856, 0.2426, 0.3434, 0.2426, 0.0856),
\* in twelfths: (1, 3, 4, 3, 1) / 12.
GaussKernel == <<1, 3, 4, 3, 1>>
GaussNorm == 12

\* cv2 BORDER_REFLECT_101 (the default border of GaussianBlur)
RECURSIVE Reflect101(_, _)
Reflect101(p, len) ==
    IF len = 1 THEN 0
    ELSE IF p < 0 THEN Reflect101(-p, len)
    ELSE IF p >= len THEN Reflect101(2 * (len - 1) - p, len)
    ELSE p

\* cv2.GaussianBlur(im, ksize=(5, 5), sigmaX=1.2, sigmaY=1.2), times GaussNorm^2
GaussianBlur(h, n, im) ==
    Grid(h, n, LAMBDA r, c :
        RangeSum([a \in 1..5 |->
            GaussKernel[a] * RangeSum([b \in 1..5 |->
                GaussKernel[b] * im[<<Reflect101(r + a - 3, h), Reflect101(c + b - 3, n)>>]],
                1, 5)], 1, 5))

\* cv2.resize(src, dsize=(dw, dh), interpolation=INTER_AREA): output pixel i
\* of an axis averages the source interval [i * len / dlen, (i + 1) * len / dlen),
\* each source pixel weighted by its overlap.  The entry is the mean times h * n.
Overlap(i, dlen, s, len) ==
    Max(0, Min((s + 1) * dlen, (i + 1) * len) - Max(s * dlen, i * len))
resize_area(h, n, src, dh, dw) ==
    Grid(dh, dw, LAMBDA i, j :
        RangeSum([r \in 0..(h - 1) |->
            Overlap(i, dh, r, h) * RangeSum([c \in 0..(n - 1) |->
                Overlap(j, dw, c, n) * src[<<r, c>>]], 0, n - 1)], 0, h - 1))

\* the level written into the parent Dataset instead of a new one
level_dataset_in_place(img_orig, dh, dw, img_downs, mask_downs, oid) ==
    [img_orig EXCEPT !.h = dh, !.n = dw, !.im = img_downs,
                     !.hasMsk = TRUE, !.msk = mask_downs,
                     !.row = Labels(0, dh), !.col = Labels(0, dw)]

\* xr.Dataset({'im': img_downs.astype(np.float32)}, coords=...), its 'msk'
\* and its attrs
level_dataset(img_orig, dh, dw, img_downs, mask_downs, oid) ==
    [id |-> oid, store |-> oid, h |-> dh, n |-> dw, im |-> img_downs,
     den |-> img_orig.den,
     hasMsk |-> TRUE, msk |-> mask_downs,
     hasAttrs |-> TRUE,
     attrs |-> [present |-> TRUE,
                no_data_img |-> img_orig.attrs.no_data_img,
                valid_pixels |-> img_orig.attrs.valid_pixels,
                no_data_mask |-> img_orig.attrs.no_data_mask],
     row |-> Labels(0, dh), col |-> Labels(0, dw)]

create_downsampled_dataset(img_orig, scale_factor, oid) ==
    LET h == img_orig.h
        n == img_orig.n
        img == GaussianBlur(h, n, img_orig.im)
        dw == TruncDiv(n, scale_factor)
        dh == TruncDiv(h, scale_factor)
        scale == GaussNorm * GaussNorm * h * n
        area == resize_area(h, n, img, dh, dw)
        img_downs == Grid(dh, dw, LAMBDA i, j : area[<<i, j>>] \div scale)
        \* 'msk' in img_orig: the smoothed samples `img` are resized, and
        \* astype(np.int16) truncates; otherwise img_downs * 0
        mask_downs == IF img_orig.hasMsk
                      THEN Grid(dh, dw, LAMBDA i, j :
                                   TruncDiv(area[<<i, j>>], scale * img_orig.den))
                      ELSE Grid(dh, dw, LAMBDA i, j : img_downs[<<i, j>>] * 0)
    IN  IF scale_factor = 1 THEN Ok(img_orig)
        ELSE IF h = 0 \/ n = 0 THEN Err("cv2.error")
        ELSE IF scale_factor = 0 THEN Err("ZeroDivisionError")
        \* cv2.resize needs a non-empty dsize (fx and fy are not given)
        ELSE IF dw <= 0 \/ dh <= 0 THEN Err("cv2.error")
        ELSE Ok(level_dataset(img_orig, dh, dw, img_downs, mask_downs, oid))

\* ---- prepare_pyramid ----
Reverse(s) == [k \in 1..Len(s) |-> s[Len(s) + 1 - k]]

\* the same loop, returning the lists fine to coarse (no [::-1])
RECURSIVE pyramid_loop_unreversed(_, _, _, _, _)
pyramid_loop_unreversed(pyramid_left, pyramid_right, k, scale_factor, oid) ==
    IF k <= 0 THEN Ok(<<pyramid_left, pyramid_right>>)
    ELSE LET l == create_downsampled_dataset(pyramid_left[Len(pyramid_left)], scale_factor, oid)
             r == create_downsampled_dataset(pyramid_right[Len(pyramid_right)], scale_factor, oid + 1)
         IN  IF l.kind # "ok" THEN l
             ELSE IF r.kind # "ok" THEN r
             ELSE pyramid_loop_unreversed(Append(pyramid_left, l.val),
                                          Append(pyramid_right, r.val),
                                          k - 1, scale_factor, oid + 2)

\* the loop over np.arange(num_scales - 1), k iterations left
RECURSIVE pyramid_loop(_, _, _, _, _)
pyramid_loop(pyramid_left, pyramid_right, k, scale_factor, oid) ==
    IF k <= 0 THEN Ok(<<Reverse(pyramid_left), Reverse(pyramid_right)>>)
    ELSE LET l == create_downsampled_dataset(pyramid_left[Len(pyramid_left)], scale_factor, oid)
             r == create_downsampled_dataset(pyramid_right[Len(pyramid_right)], scale_factor, oid + 1)
         IN  IF l.kind # "ok" THEN l
             ELSE IF r.kind # "ok" THEN r
             ELSE pyramid_loop(Append(pyramid_left, l.val), Append(pyramid_right, r.val),
                               k - 1, scale_factor, oid + 2)

prepare_pyramid(img_left, img_right, num_scales, scale_factor, oid) ==
    pyramid_loop(<<img_left>>, <<img_right>>, num_scales - 1, scale_factor, oid)

\* ---- inputs ----
\* Sample bands: ramps modulo MaxVal + 1 (constant images, row, column and
\* diagonal gradients), optionally twisted by floor(r * c / 2), which breaks
\* the period MaxVal + 1; mask files mark a checkerboard as invalid.
Ramp(h, n, a, b, d, x) ==
    Grid(h, n, LAMBDA r, c : (a * r + b * c + d + (IF x THEN (r * c) \div 2 ELSE 0)) % (MaxVal + 1))
Checker(h, n) == Grid(h, n, LAMBDA r, c : (r + c) % 2)

LeftId == 1
RightId == 2
FreshId == 3

WinSizes == (-1)..MaxWin
Subpixes == 0..(MaxSubpix + 1)
NumScales == (-1)..MaxScales
ScaleFactors == (-1)..MaxFactor

InitWith(NoDatas, MaskChoices) ==
    /\ \E h \in 1..MaxH, n \in 1..MaxW, a \in 0..MaxVal, b \in 0..MaxVal, d \in 0..MaxVal,
          x \in BOOLEAN, no_data \in NoDatas, ml \in MaskChoices, mr \in MaskChoices :
            /\ left = read_img(LeftId, h, n, Ramp(h, n, b, a, d, x), no_data, ml, Checker(h, n))
            /\ right = read_img(RightId, h, n, Ramp(h, n, a, b, d, x), no_data, mr, Checker(h, n))
    /\ pc = "ready"
    /\ call = [op |-> "none", args |-> <<>>]
    /\ ret = [kind |-> "none", val |-> <<>>]

Init == InitWith({0, NanSentinel}, BOOLEAN)
InitPlain == InitWith({NanSentinel}, {FALSE})

\* ---- one action per kernel call ----
Return(op, args, result) ==
    /\ pc = "ready"
    /\ pc' = "done"
    /\ call' = [op |-> op, args |-> args]
    /\ ret' = result
    /\ UNCHANGED <<left, right>>

CallMeanPatch ==
    \E row \in (-1)..right.h, col \in (-1)..right.n, w \in WinSizes :
        Return("compute_mean_patch", <<row, col, w>>, compute_mean_patch(right, row, col, w))

CallMeanRaster ==
    \E w \in WinSizes :
        Return("compute_mean_raster", <<w>>, compute_mean_raster(right, w))

CallStdRaster ==
    \E w \in WinSizes :
        Return("compute_std_raster", <<w>>, compute_std_raster(right, w))

CallCensus ==
    \E w \in WinSizes :
        Return("census_transform", <<w>>, census_transform(right, w, FreshId))

CallShift ==
    \E subpix \in Subpixes :
        Return("shift_right_img", <<subpix>>, shift_right_img(right, subpix, FreshId))

CallDownsample ==
    \E sf \in ScaleFactors :
        Return("create_downsampled_dataset", <<sf>>,
               create_downsampled_dataset(right, sf, FreshId))

CallPyramid ==
    \E ns \in NumScales, sf \in ScaleFactors :
        Return("prepare_pyramid", <<ns, sf>>, prepare_pyramid(left, right, ns, sf, FreshId))

NextStats == CallMeanPatch \/ CallMeanRaster \/ CallStdRaster
NextCensus == CallCensus
NextShift == CallShift
NextPyramid == CallDownsample \/ CallPyramid
Next ==
    \/ CallMeanPatch
    \/ CallMeanRaster
    \/ CallStdRaster
    \/ CallCensus
    \/ CallShift
    \/ CallDownsample
    \/ CallPyramid

\* Only create_downsampled_dataset reads 'msk' and the attrs: SpecPyramid,
\* where the mask of a level is at stake, starts from every dataset read_img
\* builds, the other specifications from the datasets without mask.
Spec == InitPlain /\ [][Next]_vars
SpecStats == InitPlain /\ [][NextStats]_vars
SpecCensus == InitPlain /\ [][NextCensus]_vars
SpecShift == InitPlain /\ [][NextShift]_vars
SpecPyramid == Init /\ [][NextPyramid]_vars

NextDerive == CallShift \/ CallDownsample \/ CallPyramid
SpecDerive == InitPlain /\ [][NextDerive]_vars

\* ---- vocabulary of the properties ----
Called(op) == pc = "done" /\ call.op = op
Arg(k) == call.args[k]
OddWin(w) == w >= 1 /\ w % 2 = 1
Half(w) == (w - 1) \div 2

\* sum of the samples of rows r0..r1 and columns c0..c1, term by term
BlockSum(img, r0, r1, c0, c1) ==
    LET cells == (r0..r1) \X (c0..c1)
        F[S \in SUBSET cells] ==
            IF S = {} THEN 0
            ELSE LET p == CHOOSE q \in S : TRUE IN img.im[p] + F[S \ {p}]
    IN  F[cells]

\* the window centred at (row, col) lies inside the image
WindowInside(img, row, col, w) ==
    /\ 0 <= row - Half(w) /\ row + Half(w) <= img.h - 1
    /\ 0 <= col - Half(w) /\ col + Half(w) <= img.n - 1

\* C2 (as stated): for an odd window lying inside the image, compute_mean_patch
\* returns the arithmetic mean of the samples of rows row-(w-1)/2..row+(w-1)/2
\* and columns col-(w-1)/2..col+(w-1)/2.
C2_MeanPatchIsWindowMean ==
    (Called("compute_mean_patch") /\ OddWin(Arg(3))
        /\ WindowInside(right, Arg(1), Arg(2), Arg(3)))
    => /\ ret.kind = "ok"
       /\ ret.val.cnt > 0
       /\ ret.val.sum * Arg(3) * Arg(3)
            = ret.val.cnt * BlockSum(right, Arg(1) - Half(Arg(3)), Arg(1) + Half(Arg(3)),
                                     Arg(2) - Half(Arg(3)), Arg(2) + Half(Arg(3)))

\* C3 (as stated): for an odd window, compute_mean_patch raises IndexError
\* exactly when the window leaves the image, and a returned value is a mean
\* over a full w x w block.
C3_OutOfBoundsIffOutside ==
    (Called("compute_mean_patch") /\ OddWin(Arg(3)))
    => /\ (ret.kind = "IndexError") <=> ~WindowInside(right, Arg(1), Arg(2), Arg(3))
       /\ ret.kind = "ok" => ret.val.cnt = Arg(3) * Arg(3)

\* C4: for an odd w with 1 <= w <= min(h, n), compute_mean_raster returns a
\* grid of shape (h-w+1, n-w+1) whose entry [i, j] is the directly summed
\* w x w block with top-left corner (i, j), divided by w * w.
C4_MeanRasterIsBlockMean ==
    (Called("compute_mean_raster") /\ OddWin(Arg(1)) /\ Arg(1) <= Min(right.h, right.n))
    => /\ ret.kind = "ok"
       /\ ret.val.rows = right.h - Arg(1) + 1
       /\ ret.val.cols = right.n - Arg(1) + 1
       /\ ret.val.den = Arg(1) * Arg(1)
       /\ DOMAIN ret.val.num = (0..(right.h - Arg(1))) \X (0..(right.n - Arg(1)))
       /\ \A p \in DOMAIN ret.val.num :
            ret.val.num[p] = BlockSum(right, p[1], p[1] + Arg(1) - 1, p[2], p[2] + Arg(1) - 1)

\* C4 witness: a 3 x 3 window slid over several positions of a non-constant image
C4_Witness ==
    /\ Called("compute_mean_raster") /\ Arg(1) = 3 /\ ret.kind = "ok"
    /\ ret.val.rows >= 2 /\ ret.val.cols >= 2
    /\ \E p, q \in DOMAIN ret.val.num : ret.val.num[p] # ret.val.num[q]

\* ---- census_transform ----
BitOf(v, b) == (v \div Pow2(b)) % 2
StrictlyAbove(x, y) == IF x > y THEN 1 ELSE 0

\* the k-th (from 0) window position in row-major order with the centre skipped
NeighbourPos(w, k) ==
    LET c == (w * w - 1) \div 2
        m == IF k < c THEN k ELSE k + 1
    IN  <<m \div w, m % w>>

C6_CensusShape ==
    (Called("census_transform") /\ OddWin(Arg(1)) /\ Arg(1) <= Min(right.h, right.n))
    => /\ ret.kind = "ok"
       /\ ret.val.h = right.h - Arg(1) + 1
       /\ ret.val.n = right.n - Arg(1) + 1
       /\ DOMAIN ret.val.im = (0..(right.h - Arg(1))) \X (0..(right.n - Arg(1)))
       /\ ret.val.row = [j \in 1..(right.h - Arg(1) + 1) |-> (Half(Arg(1)) + j - 1) * CoordDen]
       /\ ret.val.col = [j \in 1..(right.n - Arg(1) + 1) |-> (Half(Arg(1)) + j - 1) * CoordDen]

\* ---- shift_right_img ----
\* C7: for subpix in {1, 2, 4} the list has subpix buffers, the first is the
\* input; the others sit at the offsets 0.5 (subpix = 2) or 0.25, 0.5, 0.75
\* (subpix = 4), keep the row count, have n - 1 columns and as many column
\* labels, the j-th label being first input label + offset + j.
ShiftOffset(subpix, k) == IF subpix = 2 THEN 2 ELSE k - 1
C7_ShiftList ==
    (Called("shift_right_img") /\ Arg(1) \in {1, 2, 4})
    => /\ ret.kind = "ok"
       /\ Len(ret.val) = Arg(1)
       /\ ret.val[1] = right
       /\ \A k \in 2..Len(ret.val) :
            /\ ret.val[k].h = right.h
            /\ ret.val[k].n = right.n - 1
            /\ DOMAIN ret.val[k].im = (0..(right.h - 1)) \X (0..(right.n - 2))
            /\ Len(ret.val[k].col) = ret.val[k].n
            /\ \A j \in 1..Len(ret.val[k].col) :
                 ret.val[k].col[j]
                   = right.col[1] + ShiftOffset(Arg(1), k) + (j - 1) * CoordDen

\* C7 witness: subpix = 4 on an image of at least three columns
C7_Witness ==
    /\ Called("shift_right_img") /\ Arg(1) = 4 /\ ret.kind = "ok"
    /\ right.n >= 3 /\ Len(ret.val) = 4 /\ ret.val[4].n = right.n - 1

\* ---- configuration errors ----
\* C8 (as stated): an invalid configuration is rejected with an
\* InvalidConfiguration error and no result: subpix outside {1, 2, 4},
\* num_scales <= 0 or scale_factor <= 0, an even or non-positive window.
InvalidCall ==
    \/ Called("shift_right_img") /\ Arg(1) \notin {1, 2, 4}
    \/ Called("prepare_pyramid") /\ (Arg(1) <= 0 \/ Arg(2) <= 0)
    \/ /\ pc = "done"
       /\ call.op \in {"census_transform", "compute_mean_raster", "compute_std_raster"}
       /\ ~OddWin(Arg(1))
\* C8, with any exception counted as the rejection: an invalid configuration
\* never yields a result.  A call that returns one refutes the statement
\* whatever the error type and however late the errors are raised.
C8_InvalidConfigurationRejected ==
    InvalidCall => ret.kind # "ok"

\* ---- prepare_pyramid, create_downsampled_dataset ----
RECURSIVE Pow(_, _)
Pow(b, e) == IF e <= 0 THEN 1 ELSE b * Pow(b, e - 1)

\* C1 (as stated): for num_scales >= 1 and scale_factor >= 1, prepare_pyramid
\* returns two lists of num_scales elements whose last elements are the inputs.
PyramidShape ==
    /\ ret.kind = "ok"
    /\ Len(ret.val[1]) = Arg(1) /\ Len(ret.val[2]) = Arg(1)
    /\ ret.val[1][Arg(1)] = left
    /\ ret.val[2][Arg(1)] = right
C1_PyramidLength ==
    (Called("prepare_pyramid") /\ Arg(1) >= 1 /\ Arg(2) >= 1) => PyramidShape

\* every level keeps at least one row and one column
LevelsFit(img, num_scales, scale_factor) ==
    scale_factor = 1 \/ Min(img.h, img.n) >= Pow(scale_factor, num_scales - 1)

\* C1 (amended): the same, for the inputs whose num_scales - 1 successive
\* floor divisions of the height and width by scale_factor stay >= 1 (always
\* so when scale_factor = 1); the other calls fail in cv2.resize.
C1_PyramidLengthWhenLevelsFit ==
    (Called("prepare_pyramid") /\ Arg(1) >= 1 /\ Arg(2) >= 1)
    => IF LevelsFit(left, Arg(1), Arg(2)) /\ LevelsFit(right, Arg(1), Arg(2))
       THEN PyramidShape
       ELSE ret.kind = "cv2.error"

\* C1 witness: a pyramid of three levels built by halving
C1_Witness ==
    /\ Called("prepare_pyramid") /\ Arg(1) = 3 /\ Arg(2) = 2 /\ ret.kind = "ok"
    /\ Len(ret.val[1]) = 3 /\ ret.val[2][1].h = 1 /\ ret.val[2][2].h = 2

\* the buffers a call returns, with their positions
Returned ==
    IF ret.kind # "ok" THEN <<>>
    ELSE IF call.op = "prepare_pyramid" THEN ret.val[1] \o ret.val[2]
    ELSE IF call.op = "create_downsampled_dataset" THEN <<ret.val>>
    ELSE IF call.op = "shift_right_img" THEN ret.val
    ELSE <<>>
IsInput(b) == b.id \in {left.id, right.id} \/ b.store \in {left.store, right.store}
Fresh(k) ==
    /\ ~IsInput(Returned[k])
    /\ \A m \in 1..Len(Returned) :
         m # k => Returned[m].id # Returned[k].id /\ Returned[m].store # Returned[k].store
OwnershipCall ==
    \/ Called("prepare_pyramid") /\ Arg(1) >= 1 /\ Arg(2) >= 1
    \/ Called("create_downsampled_dataset") /\ Arg(1) >= 1
    \/ Called("shift_right_img") /\ Arg(1) \in {1, 2, 4}

PassThrough(k) ==
    \/ call.op = "prepare_pyramid" /\ (Arg(2) = 1 \/ k \in {Arg(1), 2 * Arg(1)})
    \/ call.op = "create_downsampled_dataset" /\ Arg(1) = 1
    \/ call.op = "shift_right_img" /\ k = 1
PassedInput(k) ==
    IF call.op = "prepare_pyramid" /\ k <= Arg(1) THEN left ELSE right

DecimatedMask(parent, dh, dw) ==
    LET area == resize_area(parent.h, parent.n, parent.msk, dh, dw)
    IN  [p \in (0..(dh - 1)) \X (0..(dw - 1)) |-> TruncDiv(area[p], parent.h * parent.n)]
C10_LevelMaskFromParentMask ==
    (Called("create_downsampled_dataset") /\ Arg(1) >= 2
        /\ right.h >= Arg(1) /\ right.n >= Arg(1))
    => /\ ret.kind = "ok"
       /\ ret.val.h = right.h \div Arg(1)
       /\ ret.val.n = right.n \div Arg(1)
       /\ DOMAIN ret.val.im = (0..(ret.val.h - 1)) \X (0..(ret.val.n - 1))
       /\ ret.val.hasMsk
       /\ ret.val.msk = IF right.hasMsk
                        THEN DecimatedMask(right, ret.val.h, ret.val.n)
                        ELSE [p \in DOMAIN ret.val.im |-> right.attrs.valid_pixels]
       /\ ret.val.attrs = right.attrs

====
